---- MODULE Spec2Model ----
(***************************************************************************)
(* Model of the recognition pipeline of backend/app.py: segment_audio,     *)
(* get_acrcloud_signature, recognize_track, recognize_segment_parallel,    *)
(* the ThreadPoolExecutor dispatch and result loop of identify, and        *)
(* merge_consecutive_tracks with fuzz.partial_ratio.                       *)
(*                                                                         *)
(* Text is a sequence of one-character strings, so that lower(),           *)
(* substring tests and the matching blocks of difflib.SequenceMatcher      *)
(* (the matcher fuzzywuzzy falls back to) are computed, not assumed.       *)
(***************************************************************************)
EXTENDS Integers, Sequences, FiniteSets, TLC

(***************************************************************************)
(* Bounds of the model (not program constants).                            *)
(***************************************************************************)
\* longest track list given to merge_consecutive_tracks in MergeSpec
MaxTracks == 3
\* failure responses (non-2xx, transport error, malformed body) the
\* recognition service may give during one run
MaxFaults == 3
\* longest source given to segment_audio in SegmentSpec, in half seconds
MaxHalfSeconds == 8
\* longest window given to segment_audio in SegmentSpec, in seconds
MaxWindow == 3
\* number of segments of the source in PoolSpec
MaxPoolSegments == 5
\* number of concurrent requests in FilesSpec
MaxInvocations == 2
\* longest track list in ChainSpec
MaxChainTracks == 4

(***************************************************************************)
(* Program constants.                                                      *)
(***************************************************************************)
\* recognize_track(file_path, max_retries=3)
max_retries == 3
\* recognize_segment_parallel: for _ in range(3)
outer_retries == 3
\* ThreadPoolExecutor(max_workers=4)
max_workers == 4
\* fuzz.partial_ratio(...) > 80
SIMILARITY_THRESHOLD == 80
\* segment_audio(wav_path, segment_length=20, overlap=0)
segment_length == 20
overlap == 0

(***************************************************************************)
(* Text helpers.                                                           *)
(***************************************************************************)
UpperToLower ==
  [A |-> "a", B |-> "b", C |-> "c", D |-> "d", E |-> "e", F |-> "f",
   G |-> "g", H |-> "h", I |-> "i", J |-> "j", K |-> "k", L |-> "l",
   M |-> "m", N |-> "n", O |-> "o", P |-> "p", Q |-> "q", R |-> "r",
   S |-> "s", T |-> "t", U |-> "u", V |-> "v", W |-> "w", X |-> "x",
   Y |-> "y", Z |-> "z"]

\* str.lower()
lower(s) ==
  [p \in 1..Len(s) |->
     IF s[p] \in DOMAIN UpperToLower THEN UpperToLower[s[p]] ELSE s[p]]

\* Python's  sub in s  on strings
Contains(s, sub) ==
  \E p \in 0..(Len(s) - Len(sub)) :
     \A q \in 1..Len(sub) : s[p + q] = sub[q]

REMIX == <<"r", "e", "m", "i", "x">>

\* s[lo:hi] with 0 <= lo (Python slice, hi clipped to the length)
Slice(s, lo, hi) ==
  LET h == IF hi > Len(s) THEN Len(s) ELSE hi
  IN  IF lo >= h THEN <<>> ELSE SubSeq(s, lo + 1, h)

SetMax(S) == CHOOSE x \in S : \A y \in S : y <= x
SetMin(S) == CHOOSE x \in S : \A y \in S : x <= y

(***************************************************************************)
(* difflib.SequenceMatcher without junk (autojunk only acts on sequences   *)
(* of 200 or more elements).  Offsets are 0-based as in Python.            *)
(***************************************************************************)
RECURSIVE RunLen(_, _, _, _, _, _)
\* length of the common run of a[i:ahi] and b[j:bhi] starting at i, j
RunLen(a, i, ahi, b, j, bhi) ==
  IF i < ahi /\ j < bhi /\ a[i + 1] = b[j + 1]
  THEN 1 + RunLen(a, i + 1, ahi, b, j + 1, bhi)
  ELSE 0

\* the longest matching block in a[alo:ahi], b[blo:bhi]; of all maximal
\* blocks the one starting earliest in a, and of those earliest in b
find_longest_match(a, alo, ahi, b, blo, bhi) ==
  IF alo >= ahi \/ blo >= bhi THEN <<alo, blo, 0>>
  ELSE
    LET Is == alo..(ahi - 1)
        Js == blo..(bhi - 1)
        k  == SetMax({RunLen(a, i, ahi, b, j, bhi) : i \in Is, j \in Js})
    IN  IF k = 0 THEN <<alo, blo, 0>>
        ELSE
          LET i == SetMin({x \in Is :
                             \E y \in Js : RunLen(a, x, ahi, b, y, bhi) = k})
              j == SetMin({y \in Js : RunLen(a, i, ahi, b, y, bhi) = k})
          IN  <<i, j, k>>

RECURSIVE MatchingBlocks(_, _, _, _, _, _)
\* the non-empty blocks of get_matching_blocks() for a[alo:ahi], b[blo:bhi]
MatchingBlocks(a, alo, ahi, b, blo, bhi) ==
  LET m == find_longest_match(a, alo, ahi, b, blo, bhi)
      i == m[1]
      j == m[2]
      k == m[3]
  IN  IF k = 0 THEN {}
      ELSE {m}
           \cup (IF alo < i /\ blo < j
                 THEN MatchingBlocks(a, alo, i, b, blo, j) ELSE {})
           \cup (IF i + k < ahi /\ j + k < bhi
                 THEN MatchingBlocks(a, i + k, ahi, b, j + k, bhi) ELSE {})

RECURSIVE SumSizes(_)
SumSizes(blocks) ==
  IF blocks = {} THEN 0
  ELSE LET m == CHOOSE x \in blocks : TRUE
       IN  m[3] + SumSizes(blocks \ {m})

\* number of matched elements M of SequenceMatcher(None, a, b)
Matches(a, b) == SumSizes(MatchingBlocks(a, 0, Len(a), b, 0, Len(b)))

\* int(round(100 * 2.0*M/T)), Python 3 rounding (ties to even)
RoundPercent(M, T) ==
  LET num == 200 * M
      q   == num \div T
      r   == num % T
  IN  IF 2 * r > T THEN q + 1
      ELSE IF 2 * r = T THEN (IF q % 2 = 1 THEN q + 1 ELSE q)
      ELSE q

\* fuzz.partial_ratio(s1, s2), an integer 0..100
partial_ratio(s1, s2) ==
  IF s1 = s2 THEN 100                       \* utils.check_for_equivalence
  ELSE IF Len(s1) = 0 \/ Len(s2) = 0 THEN 0 \* utils.check_empty_string
  ELSE
    LET shorter == IF Len(s1) <= Len(s2) THEN s1 ELSE s2
        longer  == IF Len(s1) <= Len(s2) THEN s2 ELSE s1
        blocks  == MatchingBlocks(shorter, 0, Len(shorter),
                                  longer, 0, Len(longer))
                   \cup {<<Len(shorter), Len(longer), 0>>}
        starts  == {IF m[2] - m[1] > 0 THEN m[2] - m[1] ELSE 0 : m \in blocks}
        Sub(ls) == Slice(longer, ls, ls + Len(shorter))
        \* r > .995  <=>  2000*M > 995*T
        Full(ls) == 2000 * Matches(shorter, Sub(ls))
                      > 995 * (Len(shorter) + Len(Sub(ls)))
    IN  IF \E ls \in starts : Full(ls) THEN 100
        ELSE SetMax({RoundPercent(Matches(shorter, Sub(ls)),
                                  Len(shorter) + Len(Sub(ls))) : ls \in starts})

(***************************************************************************)
(* Titles used as inputs.                                                  *)
(***************************************************************************)
SongA     == <<"S", "o", "n", "g", " ", "A">>
SongB     == <<"S", "o", "n", "g", " ", "B">>
Song      == <<"S", "o", "n", "g">>
SongRemix == <<"S", "o", "n", "g", " ", "(", "R", "e", "m", "i", "x", ")">>
Remix     == <<"R", "e", "m", "i", "x">>
Remax     == <<"R", "e", "m", "a", "x">>

Titles == {SongA, SongB, Song, SongRemix, Remix, Remax}

\* the similarity of every pair of input titles, as line 243 computes it
SimilarityTable ==
  [p \in Titles \X Titles |-> partial_ratio(lower(p[1]), lower(p[2]))]

\* title_similarity: fuzz.partial_ratio(title.lower(), seen_title.lower())
title_similarity(title, seen_title) == SimilarityTable[<<title, seen_title>>]

(***************************************************************************)
(* fix_encoding.  A character is a one-character string; the characters    *)
(* outside ASCII are written by their code point.                          *)
(***************************************************************************)
\* code points 0x80..0xFF: encodable as latin-1, not ASCII
Latin1High == {"U+00C3", "U+00A9", "U+00E9"}
\* code points above 0xFF: .encode("latin1") raises UnicodeEncodeError
NonLatin1 == {"U+20AC"}

RECURSIVE DecodeUtf8(_)
\* the text of latin-1 bytes decoded as UTF-8, or <<"!">> at the head of the
\* rest when the bytes are not valid UTF-8 (UnicodeDecodeError)
DecodeUtf8(s) ==
  IF s = <<>> THEN <<>>
  ELSE IF Head(s) \notin Latin1High THEN <<Head(s)>> \o DecodeUtf8(Tail(s))
  ELSE IF Len(s) >= 2 /\ s[1] = "U+00C3" /\ s[2] = "U+00A9"
       THEN <<"U+00E9">> \o DecodeUtf8(Tail(Tail(s)))
  ELSE <<"UnicodeDecodeError">>

\* fix_encoding(text): [raised |-> BOOLEAN, text |-> result]
fix_encoding(text) ==
  IF \E p \in 1..Len(text) : text[p] \in NonLatin1
  THEN [raised |-> FALSE, text |-> text]       \* except UnicodeEncodeError: pass
  ELSE LET d == DecodeUtf8(text)
       IN  IF \E p \in 1..Len(d) : d[p] = "UnicodeDecodeError"
           THEN [raised |-> TRUE, text |-> text]  \* not caught by line 57
           ELSE [raised |-> FALSE, text |-> d]    \* NFKC leaves these unchanged

(***************************************************************************)
(* segment_audio: the windows [start, end) in milliseconds.                *)
(***************************************************************************)
RECURSIVE SegmentsFrom_no_clip(_, _, _, _)
\* variant: the end of a window is not clipped to the length of the source
SegmentsFrom_no_clip(start, total, step, window) ==
  IF start >= total THEN <<>>
  ELSE LET end == start + window
       IN  IF end >= total
           THEN <<[start |-> start, end |-> end]>>
           ELSE <<[start |-> start, end |-> end]>>
                \o SegmentsFrom_no_clip(start + step, total, step, window)

RECURSIVE SegmentsFrom_no_break(_, _, _, _)
\* variant: the loop does not stop at the window that reaches the end
SegmentsFrom_no_break(start, total, step, window) ==
  IF start >= total THEN <<>>
  ELSE LET end == IF start + window < total THEN start + window ELSE total
       IN  <<[start |-> start, end |-> end]>>
           \o SegmentsFrom_no_break(start + step, total, step, window)

RECURSIVE SegmentsFrom(_, _, _, _)
SegmentsFrom(start, total, step, window) ==
  IF start >= total THEN <<>>                     \* range(0, total, step) ends
  ELSE LET end == IF start + window < total THEN start + window ELSE total
       IN  IF end = total
           THEN <<[start |-> start, end |-> end]>>             \* break
           ELSE <<[start |-> start, end |-> end]>>
                \o SegmentsFrom(start + step, total, step, window)

segment_audio(total, seg_len, ovl) ==
  SegmentsFrom(0, total, (seg_len - ovl) * 1000, seg_len * 1000)

(***************************************************************************)
(* get_acrcloud_signature raises ValueError when a credential is empty.    *)
(***************************************************************************)
\* variant: only the access key is tested
CredentialsMissing_key_only(key, secret) == key = ""

CredentialsMissing(key, secret) == key = "" \/ secret = ""

(***************************************************************************)
(* Response bodies (JSON documents) and outcomes of a future.              *)
(***************************************************************************)
Artist == <<"D", "J">>
\* external_metadata.youtube.vid of the hits; "" when the hit has none
VidOf(t) == IF t = SongA THEN "vidA" ELSE ""
Hit(t, sc) == [title |-> t, artist |-> Artist, score |-> sc, vid |-> VidOf(t)]

\* {"error": msg}
ErrorBody(msg) == [keys |-> {"error"}, error |-> msg,
                   has_music |-> FALSE, music |-> <<>>]
\* {"status": {...}} : the service's "no result" document
NoResultBody == [keys |-> {"status"}, error |-> "",
                 has_music |-> FALSE, music |-> <<>>]
\* {"status": {...}, "metadata": {}} 
NoMusicBody == [keys |-> {"status", "metadata"}, error |-> "",
                has_music |-> FALSE, music |-> <<>>]
\* {"status": {...}, "metadata": {"music": [...]}}
MusicBody(m) == [keys |-> {"status", "metadata"}, error |-> "",
                 has_music |-> TRUE, music |-> m]

MusicLists == { <<>>, <<Hit(SongA, 70)>>, <<Hit(SongA, 90)>>,
                <<Hit(SongB, 60)>>, <<Hit(SongB, 60), Hit(SongA, 90)>> }

ServiceBodies == {NoResultBody, NoMusicBody} \cup {MusicBody(m) : m \in MusicLists}

NoOutcome == [kind |-> "none", exc |-> "", body |-> NoResultBody]
Raised(e) == [kind |-> "exception", exc |-> e, body |-> NoResultBody]
Value(b)  == [kind |-> "value", exc |-> "", body |-> b]

\* max(music, key=lambda t: t.get("score", 0)): the first hit of maximal score
MaxByScore(music) ==
  music[SetMin({p \in 1..Len(music) :
                  \A q \in 1..Len(music) : music[q].score <= music[p].score})]

Track(t, a, c) == [title |-> t, artist |-> a, confidence |-> c]

(***************************************************************************)
(* merge_consecutive_tracks.  best_tracks is a dict, which keeps its keys  *)
(* in insertion order: a sequence of [key, track].                         *)
(***************************************************************************)
HasKey(bt, title) == \E p \in 1..Len(bt) : bt[p].key = title
KeyPos(bt, title) == CHOOSE p \in 1..Len(bt) : bt[p].key = title

\* variant: the replaced entry is deleted and inserted again at the end
StoreAt_reinsert(bt, p, track) ==
  Append(SubSeq(bt, 1, p - 1) \o SubSeq(bt, p + 1, Len(bt)),
         [key |-> bt[p].key, track |-> track])

\* best_tracks[key] = track for a key already present: the position is kept
StoreAt(bt, p, track) == [bt EXCEPT ![p].track = track]

\* variant: a similarity equal to the threshold counts as similar
Similar_at_or_above(title, seen_title) ==
  title_similarity(title, seen_title) >= SIMILARITY_THRESHOLD

\* the strictness of line 243
Similar(title, seen_title) ==
  title_similarity(title, seen_title) > SIMILARITY_THRESHOLD

\* variant: the stored title is not looked at
RemixPreferred_new_only(title, existing_title) ==
  Contains(lower(title), REMIX)

\* lines 253-256
RemixPreferred(title, existing_title) ==
  Contains(lower(title), REMIX) /\ ~Contains(lower(existing_title), REMIX)

\* variant: a track whose title is already a key always replaces the entry
merge_step_last_wins(bt, track) ==
  LET title      == track.title
      confidence == track.confidence
  IN  IF HasKey(bt, title)
      THEN StoreAt(bt, KeyPos(bt, title), track)
      ELSE
        LET similar == {p \in 1..Len(bt) : Similar(title, bt[p].key)}
            found   == similar # {} /\ bt[SetMin(similar)].key # <<>>
        IN  IF found
            THEN LET p == SetMin(similar)
                     existing_track == bt[p].track
                 IN  IF confidence > existing_track.confidence
                     THEN StoreAt(bt, p, track)
                     ELSE IF confidence = existing_track.confidence
                             /\ RemixPreferred(title, existing_track.title)
                          THEN StoreAt(bt, p, track)
                          ELSE bt
            ELSE Append(bt, [key |-> title, track |-> track])

\* variant: the search of lines 242-245 does not stop at the first similar
\* key, so that the last one is used
merge_step_last_similar(bt, track) ==
  LET title      == track.title
      confidence == track.confidence
  IN  IF HasKey(bt, title)
      THEN LET p == KeyPos(bt, title)
           IN  IF confidence > bt[p].track.confidence
               THEN StoreAt(bt, p, track)
               ELSE bt
      ELSE
        LET similar == {p \in 1..Len(bt) : Similar(title, bt[p].key)}
            found   == similar # {} /\ bt[SetMax(similar)].key # <<>>
        IN  IF found
            THEN LET p == SetMax(similar)
                     existing_track == bt[p].track
                 IN  IF confidence > existing_track.confidence
                     THEN StoreAt(bt, p, track)
                     ELSE IF confidence = existing_track.confidence
                             /\ RemixPreferred(title, existing_track.title)
                          THEN StoreAt(bt, p, track)
                          ELSE bt
            ELSE Append(bt, [key |-> title, track |-> track])

\* one iteration of the loop of lines 231-258
merge_step(bt, track) ==
  LET title      == track.title
      confidence == track.confidence
  IN  IF HasKey(bt, title)
      THEN LET p == KeyPos(bt, title)
           IN  IF confidence > bt[p].track.confidence
               THEN StoreAt(bt, p, track)
               ELSE bt
      ELSE
        LET similar == {p \in 1..Len(bt) : Similar(title, bt[p].key)}
            found   == similar # {} /\ bt[SetMin(similar)].key # <<>>
        IN  IF found
            THEN LET p == SetMin(similar)
                     existing_track == bt[p].track
                 IN  IF confidence > existing_track.confidence
                     THEN StoreAt(bt, p, track)
                     ELSE IF confidence = existing_track.confidence
                             /\ RemixPreferred(title, existing_track.title)
                          THEN StoreAt(bt, p, track)
                          ELSE bt
            ELSE Append(bt, [key |-> title, track |-> track])

\* list(best_tracks.values())
Values(bt) == [p \in 1..Len(bt) |-> bt[p].track]

RECURSIVE MergeFrom(_, _, _)
MergeFrom(bt, list, p) ==
  IF p > Len(list) THEN bt ELSE MergeFrom(merge_step(bt, list[p]), list, p + 1)

\* merge_consecutive_tracks(tracklist) as a function
merge_consecutive_tracks(list) ==
  IF list = <<>> THEN <<>> ELSE Values(MergeFrom(<<>>, list, 1))

(***************************************************************************)
(* State.                                                                  *)
(***************************************************************************)
VARIABLES
  ACR_ACCESS_KEY,     \* module globals read from the environment (l.42-43)
  ACR_ACCESS_SECRET,
  total_length,       \* len(audio) in ms of the decoded source
  window_s,           \* segment_audio's segment_length argument, in seconds
  overlap_s,          \* segment_audio's overlap argument, in seconds
  request_url,        \* data.get("youtube_url") of the request (l.266)
  youtube_url,        \* identify's local youtube_url (l.266, l.311)
  db,                 \* rows of the Tracklist table
  files,              \* files in audio_files/ and audio_segments/
  inv,                \* concurrent invocations of identify using those files
  pc,                 \* position of the request thread in identify
  segment_paths,      \* the segments, in input order
  futs,               \* one future per segment: state, loop counters, outcome
  posts,              \* POSTs sent to the service, per segment
  sigchecks,          \* calls of get_acrcloud_signature, per segment
  sleeps,             \* time.sleep(2) calls, per segment
  all_transient,      \* every response so far for the segment was a failure
  faults,             \* failure responses given by the service in this run
  finish_order,       \* segment indices in the order their futures completed
  results,            \* outcomes yielded so far by the iterator of executor.map
  tracklist,          \* identify's list of projected tracks (l.285-320)
  best_tracks,        \* merge_consecutive_tracks: the dict
  mi,                 \* merge_consecutive_tracks: index of the next track
  final_tracklist,    \* tracklist after line 329
  response            \* what identify returns to the caller

vars == <<ACR_ACCESS_KEY, ACR_ACCESS_SECRET, total_length, window_s, overlap_s,
          request_url, youtube_url, db, files, inv, pc, segment_paths,
          futs, posts, sigchecks, sleeps, all_transient, faults, finish_order,
          results, tracklist, best_tracks, mi, final_tracklist, response>>

config_vars == <<ACR_ACCESS_KEY, ACR_ACCESS_SECRET, total_length, window_s,
                 overlap_s, request_url>>
store_vars  == <<youtube_url, db>>
files_vars  == <<files, inv>>
pool_vars   == <<futs, posts, sigchecks, sleeps, all_transient, faults,
                 finish_order>>
merge_vars  == <<best_tracks, mi, final_tracklist>>

\* source lengths in ms offered to a run of Spec: one or two segments
TotalLengths == {15000, 40000}

N == Len(segment_paths)
Segs == 1..N

Pending == [st |-> "pending", outer |-> 0, inner |-> 0, outcome |-> NoOutcome]

NoResponse == [status |-> "none", tracklist |-> <<>>]

\* URLs: of a request's source, of a track on YouTube (l.311), or None
Url(kind, id) == [kind |-> kind, id |-> id]
None == Url("none", "")
SourceUrl == Url("source", "set1")

\* a row of the Tracklist table
Row(url, tracks) == [youtube_url |-> url, tracks |-> tracks]

\* identify called with its default segmentation and one request URL
Defaults ==
  /\ window_s = segment_length
  /\ overlap_s = overlap
  /\ request_url = SourceUrl

\* no other invocation shares the storage directories
Alone ==
  /\ files = {}
  /\ inv = <<>>

\* the state of a request that has its decoded source and nothing else yet
Fresh ==
  /\ pc = "segment"
  /\ youtube_url = request_url
  /\ segment_paths = <<>>
  /\ futs = <<>>
  /\ posts = <<>>
  /\ sigchecks = <<>>
  /\ sleeps = <<>>
  /\ all_transient = <<>>
  /\ faults = 0
  /\ finish_order = <<>>
  /\ results = <<>>
  /\ tracklist = <<>>
  /\ best_tracks = <<>>
  /\ mi = 1
  /\ final_tracklist = <<>>
  /\ response = NoResponse

\* what an earlier run on the same source left in the table
StaleTracks == <<Track(SongB, Artist, 60)>>

Init ==
  /\ ACR_ACCESS_KEY \in {"", "key"}
  /\ ACR_ACCESS_SECRET \in {"", "secret"}
  /\ total_length \in TotalLengths
  /\ Defaults
  /\ db \in {{}, {Row(SourceUrl, StaleTracks)}}
  /\ Alone
  /\ Fresh

(***************************************************************************)
(* identify, lines 282-288: segment the source and submit one call of      *)
(* recognize_segment_parallel per segment (executor.map submits them all). *)
(***************************************************************************)
SegmentAndSubmit ==
  /\ pc = "segment"
  /\ segment_paths' = segment_audio(total_length, segment_length, overlap)
  /\ futs' = [i \in 1..Len(segment_paths') |-> Pending]
  /\ posts' = [i \in 1..Len(segment_paths') |-> 0]
  /\ sigchecks' = [i \in 1..Len(segment_paths') |-> 0]
  /\ sleeps' = [i \in 1..Len(segment_paths') |-> 0]
  /\ all_transient' = [i \in 1..Len(segment_paths') |-> TRUE]
  /\ pc' = "pool"
  /\ UNCHANGED <<config_vars, store_vars, files_vars, faults, finish_order, results, tracklist,
                 merge_vars, response>>

Running == {i \in Segs : futs[i].st = "running"}

\* variant: a thread is started for every queued call
WorkerTake_unbounded(i) ==
  /\ pc = "pool"
  /\ futs[i].st = "pending"
  /\ \A j \in 1..(i - 1) : futs[j].st # "pending"
  /\ futs' = [futs EXCEPT ![i].st = "running"]
  /\ UNCHANGED <<config_vars, store_vars, files_vars, pc, segment_paths, posts,
                 sigchecks, sleeps, all_transient, faults, finish_order,
                 results, tracklist, merge_vars, response>>

\* a pool thread takes the oldest queued call
WorkerTake(i) ==
  /\ pc = "pool"
  /\ futs[i].st = "pending"
  /\ \A j \in 1..(i - 1) : futs[j].st # "pending"
  /\ Cardinality(Running) < max_workers
  /\ futs' = [futs EXCEPT ![i].st = "running"]
  /\ UNCHANGED <<config_vars, store_vars, files_vars, pc, segment_paths, posts, sigchecks, sleeps,
                 all_transient, faults, finish_order, results, tracklist,
                 merge_vars, response>>

\* the future of segment i completes with outcome o
Finish(i, o) ==
  /\ futs' = [futs EXCEPT ![i].st = "done", ![i].outcome = o]
  /\ finish_order' = Append(finish_order, i)

\* recognize_track returned a document without "metadata" (or the error
\* document) to recognize_segment_parallel: sleep, next pass of line 213,
\* or the error document of line 218 after the last pass
OuterRetry(i) ==
  /\ sleeps' = [sleeps EXCEPT ![i] = @ + 1]
  /\ IF futs[i].outer + 1 < outer_retries
     THEN /\ futs' = [futs EXCEPT ![i].outer = @ + 1, ![i].inner = 0]
          /\ UNCHANGED finish_order
     ELSE Finish(i, Value(ErrorBody("Failed after 3 retries")))

\* lines 176-180: the signature cannot be made, recognize_track returns
\* {"error": ...}, which has no "metadata"
SignatureFails(i) ==
  /\ pc = "pool"
  /\ futs[i].st = "running"
  /\ CredentialsMissing(ACR_ACCESS_KEY, ACR_ACCESS_SECRET)
  /\ sigchecks' = [sigchecks EXCEPT ![i] = @ + 1]
  /\ OuterRetry(i)
  /\ UNCHANGED <<config_vars, store_vars, files_vars, pc, segment_paths, posts, all_transient, faults,
                 results, tracklist, merge_vars, response>>

CanPost(i) ==
  /\ pc = "pool"
  /\ futs[i].st = "running"
  /\ ~CredentialsMissing(ACR_ACCESS_KEY, ACR_ACCESS_SECRET)

Posted(i) ==
  /\ sigchecks' = [sigchecks EXCEPT ![i] = @ + 1]
  /\ posts' = [posts EXCEPT ![i] = @ + 1]

\* lines 197-203: a 2xx response with a JSON document
PostOk(i, body) ==
  /\ CanPost(i)
  /\ Posted(i)
  /\ all_transient' = [all_transient EXCEPT ![i] = FALSE]
  /\ IF "metadata" \in body.keys
     THEN /\ Finish(i, Value(body))                 \* line 216
          /\ UNCHANGED sleeps
     ELSE OuterRetry(i)
  /\ UNCHANGED <<config_vars, store_vars, files_vars, pc, segment_paths, faults, results, tracklist,
                 merge_vars, response>>

\* lines 200, 205-208: a non-2xx response is falsy; sleep and try again, and
\* after max_retries return None, on which line 215 raises TypeError
PostNon2xx(i) ==
  /\ CanPost(i)
  /\ faults < MaxFaults
  /\ Posted(i)
  /\ faults' = faults + 1
  /\ sleeps' = [sleeps EXCEPT ![i] = @ + 1]
  /\ IF futs[i].inner + 1 < max_retries
     THEN /\ futs' = [futs EXCEPT ![i].inner = @ + 1]
          /\ UNCHANGED finish_order
     ELSE Finish(i, Raised("TypeError"))
  /\ UNCHANGED <<config_vars, store_vars, files_vars, pc, segment_paths, all_transient, results,
                 tracklist, merge_vars, response>>

\* line 197: requests.post raises (connection refused, timeout, ...)
PostTransportError(i) ==
  /\ CanPost(i)
  /\ faults < MaxFaults
  /\ Posted(i)
  /\ faults' = faults + 1
  /\ Finish(i, Raised("ConnectionError"))
  /\ UNCHANGED <<config_vars, store_vars, files_vars, pc, segment_paths, sleeps, all_transient,
                 results, tracklist, merge_vars, response>>

\* lines 200-203: a 2xx response whose body is not JSON: response.json() raises
PostMalformed(i) ==
  /\ CanPost(i)
  /\ faults < MaxFaults
  /\ Posted(i)
  /\ faults' = faults + 1
  /\ Finish(i, Raised("JSONDecodeError"))
  /\ UNCHANGED <<config_vars, store_vars, files_vars, pc, segment_paths, sleeps, all_transient,
                 results, tracklist, merge_vars, response>>

(***************************************************************************)
(* identify, lines 287-326: leaving the with block joins the pool, then    *)
(* the loop takes the outcomes from the iterator of executor.map.          *)
(***************************************************************************)
\* variant: the outcomes are taken as the futures complete
ResultsOrder_as_completed(order, k) == order[k]

\* lines 306 and 311: the hit's YouTube link, or None when it has no vid
LinkOf(track) == IF track.vid # "" THEN Url("watch", track.vid) ELSE None

\* the future whose outcome the iterator yields at position k
ResultsOrder(order, k) == k

\* variant: the result loop starts without waiting for the pool
Join_no_wait ==
  /\ pc = "pool"
  /\ N > 0
  /\ pc' = "results"
  /\ UNCHANGED <<config_vars, store_vars, files_vars, segment_paths, pool_vars,
                 results, tracklist, merge_vars, response>>

Join ==
  /\ pc = "pool"
  /\ \A i \in Segs : futs[i].st = "done"
  /\ pc' = "results"
  /\ UNCHANGED <<config_vars, store_vars, files_vars, segment_paths, pool_vars, results, tracklist,
                 merge_vars, response>>

\* one pass of the loop of line 290
NextResult ==
  /\ pc = "results"
  /\ Len(results) < N
  /\ LET o == futs[ResultsOrder(finish_order, Len(results) + 1)].outcome
     IN  IF o.kind = "exception"
         THEN \* the iterator re-raises: identify fails, the caller gets a 500
              /\ pc' = "raised"
              /\ response' = [status |-> "error", tracklist |-> <<>>]
              /\ UNCHANGED <<results, tracklist, youtube_url>>
         ELSE
           IF "metadata" \in o.body.keys /\ o.body.has_music
           THEN
             IF o.body.music = <<>>
             THEN \* max() of an empty list raises ValueError
                  /\ pc' = "raised"
                  /\ response' = [status |-> "error", tracklist |-> <<>>]
                  /\ results' = Append(results, o)
                  /\ UNCHANGED <<tracklist, youtube_url>>
             ELSE
               LET track  == MaxByScore(o.body.music)
                   title  == fix_encoding(track.title)
                   artist == fix_encoding(track.artist)
               IN  IF title.raised \/ artist.raised
                   THEN /\ pc' = "raised"
                        /\ response' = [status |-> "error", tracklist |-> <<>>]
                        /\ results' = Append(results, o)
                        /\ UNCHANGED <<tracklist, youtube_url>>
                   ELSE /\ youtube_url' = LinkOf(track)           \* line 311
                        /\ tracklist' = Append(tracklist,
                                  Track(title.text, artist.text, track.score))
                        /\ results' = Append(results, o)
                        /\ UNCHANGED <<pc, response>>
           ELSE /\ results' = Append(results, o)
                /\ UNCHANGED <<pc, response, tracklist, youtube_url>>
  /\ UNCHANGED <<config_vars, db, files_vars, segment_paths, pool_vars,
                 merge_vars>>

\* line 329: the call of merge_consecutive_tracks
MergeCall ==
  /\ pc = "results"
  /\ Len(results) = N
  /\ pc' = "merge"
  /\ best_tracks' = <<>>
  /\ mi' = 1
  /\ UNCHANGED <<config_vars, store_vars, files_vars, segment_paths, pool_vars, results, tracklist,
                 final_tracklist, response>>

\* one pass of the loop of line 231
MergeStep ==
  /\ pc = "merge"
  /\ mi <= Len(tracklist)
  /\ best_tracks' = merge_step(best_tracks, tracklist[mi])
  /\ mi' = mi + 1
  /\ UNCHANGED <<config_vars, store_vars, files_vars, pc, segment_paths, pool_vars, results, tracklist,
                 final_tracklist, response>>

\* lines 226-227 and 260
MergeReturn ==
  /\ pc = "merge"
  /\ mi > Len(tracklist)
  /\ final_tracklist' = Values(best_tracks)
  /\ pc' = "respond"
  /\ UNCHANGED <<config_vars, store_vars, files_vars, segment_paths, pool_vars, results, tracklist,
                 best_tracks, mi, response>>

\* lines 331-361: store the tracklist and answer the request
\* lines 333-350: update the row whose youtube_url is key, or add one; a
\* row with a NULL youtube_url is refused at commit (nullable=False) and the
\* exception is swallowed by line 349
Upsert(rows, key, tracks) ==
  IF \E row \in rows : row.youtube_url = key
  THEN {IF row.youtube_url = key THEN Row(key, tracks) ELSE row : row \in rows}
  ELSE IF key = None THEN rows
  ELSE rows \cup {Row(key, tracks)}

Respond ==
  /\ pc = "respond"
  /\ db' = Upsert(db, youtube_url, final_tracklist)
  /\ response' = [status |-> "ok", tracklist |-> final_tracklist]
  /\ pc' = "done"
  /\ UNCHANGED <<config_vars, youtube_url, files_vars, segment_paths,
                 pool_vars, results, tracklist, merge_vars>>

Next ==
  \/ SegmentAndSubmit
  \/ \E i \in Segs : WorkerTake(i)
  \/ \E i \in Segs : SignatureFails(i)
  \/ \E i \in Segs : \E body \in ServiceBodies : PostOk(i, body)
  \/ \E i \in Segs : PostNon2xx(i)
  \/ \E i \in Segs : PostTransportError(i)
  \/ \E i \in Segs : PostMalformed(i)
  \/ Join
  \/ NextResult
  \/ MergeCall
  \/ MergeStep
  \/ MergeReturn
  \/ Respond

Spec == Init /\ [][Next]_vars

(***************************************************************************)
(* A 45 s source with valid credentials and a service that answers every   *)
(* request with a JSON document (no failure responses).                    *)
(***************************************************************************)
InitScenario ==
  /\ ACR_ACCESS_KEY = "key"
  /\ ACR_ACCESS_SECRET = "secret"
  /\ total_length = 45000
  /\ Defaults
  /\ db = {}
  /\ Alone
  /\ Fresh

NextScenario ==
  \/ SegmentAndSubmit
  \/ \E i \in Segs : WorkerTake(i)
  \/ \E i \in Segs : \E body \in ServiceBodies : PostOk(i, body)
  \/ Join
  \/ NextResult
  \/ MergeCall
  \/ MergeStep
  \/ MergeReturn
  \/ Respond

ScenarioSpec == InitScenario /\ [][NextScenario]_vars

(***************************************************************************)
(* merge_consecutive_tracks on its own: every track list of at most        *)
(* MaxTracks tracks over the input titles and confidences.                 *)
(***************************************************************************)
Confidences == {60, 90}

InputTracks == {Track(t, Artist, c) : t \in Titles, c \in Confidences}

RECURSIVE ListsUpTo(_, _)
ListsUpTo(S, n) ==
  IF n = 0 THEN {<<>>}
  ELSE LET shorter == ListsUpTo(S, n - 1)
       IN  shorter \cup {Append(l, x) : l \in shorter, x \in S}

InitMerge ==
  /\ ACR_ACCESS_KEY = "key"
  /\ ACR_ACCESS_SECRET = "secret"
  /\ total_length = 0
  /\ Defaults
  /\ youtube_url = request_url
  /\ db = {}
  /\ Alone
  /\ pc = "merge"
  /\ segment_paths = <<>>
  /\ futs = <<>>
  /\ posts = <<>>
  /\ sigchecks = <<>>
  /\ sleeps = <<>>
  /\ all_transient = <<>>
  /\ faults = 0
  /\ finish_order = <<>>
  /\ results = <<>>
  /\ tracklist \in ListsUpTo(InputTracks, MaxTracks)
  /\ best_tracks = <<>>
  /\ mi = 1
  /\ final_tracklist = <<>>
  /\ response = NoResponse

NextMerge == MergeStep \/ MergeReturn

MergeSpec == InitMerge /\ [][NextMerge]_vars

(***************************************************************************)
(* segment_audio on its own: sources of 0 to MaxHalfSeconds half seconds,  *)
(* one millisecond less and one more, windows of 1..MaxWindow seconds and  *)
(* every smaller overlap.                                                  *)
(***************************************************************************)
SegmentTotals ==
  {t \in {500 * k + d : k \in 0..MaxHalfSeconds, d \in {-1, 0, 1}} : t >= 0}

InitSegment ==
  /\ ACR_ACCESS_KEY = "key"
  /\ ACR_ACCESS_SECRET = "secret"
  /\ total_length \in SegmentTotals
  /\ window_s \in 1..MaxWindow
  /\ overlap_s \in 0..(window_s - 1)
  /\ request_url = SourceUrl
  /\ db = {}
  /\ Alone
  /\ Fresh

\* a call segment_audio(wav_path, window_s, overlap_s), lines 128-152
SegmentAudio ==
  /\ pc = "segment"
  /\ segment_paths' = segment_audio(total_length, window_s, overlap_s)
  /\ pc' = "segmented"
  /\ UNCHANGED <<config_vars, store_vars, files_vars, pool_vars, results,
                 tracklist, merge_vars, response>>

NextSegment == SegmentAudio

SegmentSpec == InitSegment /\ [][NextSegment]_vars

(***************************************************************************)
(* The pool with more segments than threads.  The access key is empty, so  *)
(* that each call of recognize_segment_parallel is its three passes with   *)
(* their retry delays and nothing else.                                    *)
(***************************************************************************)
InitPool ==
  /\ ACR_ACCESS_KEY = ""
  /\ ACR_ACCESS_SECRET = "secret"
  /\ total_length = MaxPoolSegments * segment_length * 1000
  /\ Defaults
  /\ db = {}
  /\ Alone
  /\ Fresh

NextPool ==
  \/ SegmentAndSubmit
  \/ \E i \in Segs : WorkerTake(i)
  \/ \E i \in Segs : SignatureFails(i)
  \/ Join
  \/ NextResult
  \/ MergeCall
  \/ MergeReturn
  \/ Respond

PoolSpec == InitPool /\ [][NextPool]_vars

(***************************************************************************)
(* The storage directories shared by concurrent requests.  files is the    *)
(* content of audio_files and audio_segments: one record per path, with    *)
(* the source whose audio the file holds.  inv[r] is request r: its        *)
(* position in identify, its source, the segment paths segment_audio       *)
(* returned to it, the next of them to be read by recognize_track, and the *)
(* sources of the audio it has read.                                       *)
(***************************************************************************)
Invocations == 1..MaxInvocations

\* the sources that can be requested, with their lengths in milliseconds
Sources == {[id |-> "set1", ms |-> 40000], [id |-> "set2", ms |-> 15000]}
SourceIds == {src.id : src \in Sources}
LengthOf(id) == (CHOOSE src \in Sources : src.id = id).ms

FilePath(dir, name, from, to) ==
  [dir |-> dir, name |-> name, from |-> from, to |-> to]
\* line 82
Mp3Path == FilePath("audio_files", "dj_set.mp3", 0, 0)
\* line 111
WavPath == FilePath("audio_files", "dj_set.wav", 0, 0)
\* lines 141-142
SegmentPath(seg) ==
  FilePath("audio_segments", "dj_set_segment", seg.start \div 1000,
           seg.end \div 1000)

Exists(fs, path) == \E f \in fs : f.path = path
ContentOf(fs, path) == (CHOOSE f \in fs : f.path = path).src
\* a file written at a path replaces the one that was there
WriteFile(fs, path, src) ==
  {f \in fs : f.path # path} \cup {[path |-> path, src |-> src]}

RECURSIVE WriteAll(_, _, _, _)
WriteAll(fs, paths, src, k) ==
  IF k > Len(paths) THEN fs
  ELSE WriteAll(WriteFile(fs, paths[k], src), paths, src, k + 1)

Started(id) ==
  [pc |-> "download", src |-> id, segs |-> <<>>, next |-> 1, heard |-> <<>>]

InitFiles ==
  /\ ACR_ACCESS_KEY = "key"
  /\ ACR_ACCESS_SECRET = "secret"
  /\ total_length = 0
  /\ Defaults
  /\ db = {}
  /\ files = {}
  /\ inv \in {[r \in Invocations |-> Started(id[r])] :
                id \in [Invocations -> SourceIds]}
  /\ Fresh

\* lines 271-273: yt-dlp writes audio_files/dj_set.mp3; a file that is
\* already there is either kept (the download is skipped) or replaced
Download(r, keep) ==
  /\ inv[r].pc = "download"
  /\ files' = IF Exists(files, Mp3Path) /\ keep THEN files
              ELSE WriteFile(files, Mp3Path, inv[r].src)
  /\ inv' = [inv EXCEPT ![r].pc = "convert"]
  /\ UNCHANGED <<config_vars, store_vars, pc, segment_paths, pool_vars,
                 results, tracklist, merge_vars, response>>

\* lines 276-278: ffmpeg -y decodes the mp3 that is there into dj_set.wav;
\* without an input it fails and the request ends with status 500
Convert(r) ==
  /\ inv[r].pc = "convert"
  /\ IF Exists(files, Mp3Path)
     THEN /\ files' = WriteFile(files, WavPath, ContentOf(files, Mp3Path))
          /\ inv' = [inv EXCEPT ![r].pc = "segment"]
     ELSE /\ files' = files
          /\ inv' = [inv EXCEPT ![r].pc = "failed"]
  /\ UNCHANGED <<config_vars, store_vars, pc, segment_paths, pool_vars,
                 results, tracklist, merge_vars, response>>

\* line 281: segment_audio reads the wav that is there and exports its
\* segments; from_wav raises when the wav is gone
SegmentFiles(r) ==
  /\ inv[r].pc = "segment"
  /\ IF Exists(files, WavPath)
     THEN LET src   == ContentOf(files, WavPath)
              segs  == segment_audio(LengthOf(src), segment_length, overlap)
              paths == [k \in 1..Len(segs) |-> SegmentPath(segs[k])]
          IN  /\ files' = WriteAll(files, paths, src, 1)
              /\ inv' = [inv EXCEPT ![r].pc = "recognize", ![r].segs = paths]
     ELSE /\ files' = files
          /\ inv' = [inv EXCEPT ![r].pc = "failed"]
  /\ UNCHANGED <<config_vars, store_vars, pc, segment_paths, pool_vars,
                 results, tracklist, merge_vars, response>>

\* lines 185 and 196: recognize_track reads the next segment file; getsize
\* raises when the file is gone and the request ends
ReadSegment(r) ==
  /\ inv[r].pc = "recognize"
  /\ inv[r].next <= Len(inv[r].segs)
  /\ LET path == inv[r].segs[inv[r].next]
     IN  IF Exists(files, path)
         THEN inv' = [inv EXCEPT
                        ![r].heard = Append(@, ContentOf(files, path)),
                        ![r].next = @ + 1]
         ELSE inv' = [inv EXCEPT ![r].pc = "failed"]
  /\ UNCHANGED <<config_vars, store_vars, files, pc, segment_paths, pool_vars,
                 results, tracklist, merge_vars, response>>

\* line 356: cleanup_audio_files removes both directories with all they hold
Cleanup(r) ==
  /\ inv[r].pc = "recognize"
  /\ inv[r].next > Len(inv[r].segs)
  /\ files' = {}
  /\ inv' = [inv EXCEPT ![r].pc = "done"]
  /\ UNCHANGED <<config_vars, store_vars, pc, segment_paths, pool_vars,
                 results, tracklist, merge_vars, response>>

NextFiles ==
  \/ \E r \in Invocations : \E keep \in BOOLEAN : Download(r, keep)
  \/ \E r \in Invocations : Convert(r)
  \/ \E r \in Invocations : SegmentFiles(r)
  \/ \E r \in Invocations : ReadSegment(r)
  \/ \E r \in Invocations : Cleanup(r)

FilesSpec == InitFiles /\ [][NextFiles]_vars

(***************************************************************************)
(* merge_consecutive_tracks on longer lists over three titles, one of      *)
(* which is similar to both of the others while these two are not similar  *)
(* to each other.                                                          *)
(***************************************************************************)
ChainTitles == {Song, SongRemix, Remix}

ChainTracks == {Track(t, Artist, c) : t \in ChainTitles, c \in Confidences}

InitChain ==
  /\ ACR_ACCESS_KEY = "key"
  /\ ACR_ACCESS_SECRET = "secret"
  /\ total_length = 0
  /\ Defaults
  /\ youtube_url = request_url
  /\ db = {}
  /\ Alone
  /\ pc = "merge"
  /\ segment_paths = <<>>
  /\ futs = <<>>
  /\ posts = <<>>
  /\ sigchecks = <<>>
  /\ sleeps = <<>>
  /\ all_transient = <<>>
  /\ faults = 0
  /\ finish_order = <<>>
  /\ results = <<>>
  /\ tracklist \in ListsUpTo(ChainTracks, MaxChainTracks)
  /\ best_tracks = <<>>
  /\ mi = 1
  /\ final_tracklist = <<>>
  /\ response = NoResponse

ChainSpec == InitChain /\ [][NextMerge]_vars

(***************************************************************************)
(* Properties.                                                             *)
(***************************************************************************)
CredsEmpty == ACR_ACCESS_KEY = "" \/ ACR_ACCESS_SECRET = ""

\* C1: the outcomes the result loop takes are those of the segments in input
\* order, whatever the completion order, and when the loop has ended there
\* are exactly N of them.
C1_OutputOrder ==
  /\ \A k \in 1..Len(results) : k <= N /\ results[k] = futs[k].outcome
  /\ pc \in {"merge", "respond", "done"} => Len(results) = N

\* C1 witness: two segments with different outcomes, the second completed
\* first, and the run has ended.
C1_Witness ==
  /\ pc = "done"
  /\ N = 2
  /\ finish_order = <<2, 1>>
  /\ futs[1].outcome # futs[2].outcome
  /\ results = <<futs[1].outcome, futs[2].outcome>>

\* C2: a segment whose attempts all failed transiently up to the retry bound
\* ends with an error outcome without "metadata" (it contributes nothing) and
\* does not make the run fail.
C2_TransientSegmentDropped ==
  \A i \in Segs :
    (futs[i].st = "done" /\ all_transient[i] /\ posts[i] >= max_retries)
      => /\ futs[i].outcome.kind = "value"
         /\ "metadata" \notin futs[i].outcome.body.keys
         /\ pc # "raised"

\* C3: at most 3 POSTs are sent for one segment.
C3_AtMostThreePosts == \A i \in Segs : posts[i] <= 3

\* C4: with a credential missing the credential check runs at most once per
\* segment, no retry delay is slept, and no success response is returned.
C4_FatalNotRetried ==
  CredsEmpty =>
    /\ \A i \in Segs : sigchecks[i] <= 1 /\ sleeps[i] = 0
    /\ response.status # "ok"

\* C5: when the access key or the access secret is empty, no POST is sent
\* for any segment.
C5_NoPostWithoutCredentials ==
  CredsEmpty => \A i \in Segs : posts[i] = 0

\* C5 witness: only the secret is empty, a segment went through all its
\* attempts, and the run has ended.
C5_Witness ==
  /\ ACR_ACCESS_KEY # ""
  /\ ACR_ACCESS_SECRET = ""
  /\ pc = "done"
  /\ N = 2
  /\ \A i \in Segs : sigchecks[i] = 3 /\ posts[i] = 0

\* C6: merging the output of merge_consecutive_tracks again gives the same
\* list.
C6_Idempotent ==
  pc = "respond" =>
    merge_consecutive_tracks(final_tracklist) = final_tracklist

TwoDistinctTitles ==
  /\ pc = "respond"
  /\ Len(tracklist) = 2
  /\ tracklist[1].title # tracklist[2].title

\* the similarity line 243 computes for the second of two tracks
PairSimilarity ==
  partial_ratio(lower(tracklist[2].title), lower(tracklist[1].title))

\* C7 as stated: two tracks with different titles become one entry exactly
\* when their similarity is 80 or more.
C7_MergeAtOrAboveThreshold ==
  TwoDistinctTitles => (Len(final_tracklist) = 1 <=> PairSimilarity >= 80)

\* C7 amended: two tracks with different titles become one entry exactly
\* when their similarity is strictly above 80; at 80 or below they stay two
\* entries.
C7_MergeAboveThreshold ==
  TwoDistinctTitles =>
    /\ PairSimilarity > 80 => Len(final_tracklist) = 1
    /\ PairSimilarity <= 80 => final_tracklist = tracklist

\* C7 witness: two titles of similarity exactly 80 stay separate.
C7_Witness ==
  /\ TwoDistinctTitles
  /\ PairSimilarity = 80
  /\ Len(final_tracklist) = 2

HasRemix(track) == Contains(lower(track.title), REMIX)

TwoMergedEqualConfidence ==
  /\ pc = "respond"
  /\ Len(tracklist) = 2
  /\ tracklist[1].confidence = tracklist[2].confidence
  /\ Len(final_tracklist) = 1

FirstWithTitle(title) ==
  SetMin({p \in 1..Len(tracklist) : tracklist[p].title = title})

\* C9: entries are listed in the order in which they were created, also
\* after a stored track was replaced, and the output lists them in that
\* order.
C9_CreationOrder ==
  /\ \A p \in 1..Len(best_tracks) :
       \E q \in 1..(mi - 1) : tracklist[q].title = best_tracks[p].key
  /\ \A p, q \in 1..Len(best_tracks) :
       p < q => FirstWithTitle(best_tracks[p].key)
                  < FirstWithTitle(best_tracks[q].key)
  /\ pc = "respond" =>
       /\ Len(final_tracklist) = Len(best_tracks)
       /\ \A p \in 1..Len(best_tracks) :
            final_tracklist[p] = best_tracks[p].track

\* C9 witness: the first of two entries was replaced by the third input
\* track, of higher confidence, and is still listed first.
C9_Witness ==
  /\ pc = "respond"
  /\ Len(tracklist) = 3
  /\ Len(final_tracklist) = 2
  /\ final_tracklist[1] = tracklist[3]
  /\ final_tracklist[2] = tracklist[2]
  /\ tracklist[3].confidence > tracklist[1].confidence
  /\ tracklist[3].confidence > tracklist[2].confidence

ScenarioRecognized ==
  /\ pc = "done"
  /\ N = 3
  /\ futs[1].outcome = Value(MusicBody(<<Hit(SongA, 70)>>))
  /\ futs[2].outcome = Value(MusicBody(<<Hit(SongA, 90)>>))
  /\ futs[3].outcome = Value(MusicBody(<<Hit(SongB, 60)>>))

\* C10: a 45000 ms source gives the segments [0,20000), [20000,40000),
\* [40000,45000), and with Song A (70), Song A (90), Song B (60) recognized
\* the final tracklist is Song A (90), Song B (60).
C10_EndToEnd ==
  ScenarioRecognized =>
    /\ segment_paths = << [start |-> 0, end |-> 20000],
                          [start |-> 20000, end |-> 40000],
                          [start |-> 40000, end |-> 45000] >>
    /\ response = [status |-> "ok",
                   tracklist |-> << Track(SongA, Artist, 90),
                                    Track(SongB, Artist, 60) >>]

WindowMs == window_s * 1000
Segmented == pc = "segmented"

\* C11: for a source of positive length the segments start at 0, have
\* strictly increasing starts, satisfy start < end <= total, leave no gap,
\* end exactly at total, and none follows the first that reaches total.
C11_SegmentsCoverSource ==
  (Segmented /\ total_length > 0) =>
    /\ Len(segment_paths) >= 1
    /\ segment_paths[1].start = 0
    /\ segment_paths[Len(segment_paths)].end = total_length
    /\ \A i \in 1..Len(segment_paths) :
         /\ segment_paths[i].start < segment_paths[i].end
         /\ segment_paths[i].end <= total_length
         /\ i < Len(segment_paths) =>
              /\ segment_paths[i].start < segment_paths[i + 1].start
              /\ segment_paths[i + 1].start <= segment_paths[i].end
              /\ segment_paths[i].end < total_length

\* C11 witness: overlapping windows, at least three segments, the last one
\* shorter than the window.
C11_Witness ==
  /\ Segmented
  /\ overlap_s > 0
  /\ Len(segment_paths) >= 3
  /\ segment_paths[Len(segment_paths)].end
       - segment_paths[Len(segment_paths)].start < WindowMs
  /\ segment_paths[Len(segment_paths)].end = total_length

\* C12 as stated: every source not longer than the window gives exactly one
\* segment, covering the whole source.
C12_ShortSourceOneSegment ==
  (Segmented /\ total_length <= WindowMs) =>
    segment_paths = <<[start |-> 0, end |-> total_length]>>

\* C12 amended: a source of positive length not longer than the window gives
\* exactly the segment [0, total); an empty source gives no segment.
C12_ShortNonEmptySourceOneSegment ==
  /\ (Segmented /\ 0 < total_length /\ total_length <= WindowMs) =>
       segment_paths = <<[start |-> 0, end |-> total_length]>>
  /\ (Segmented /\ total_length = 0) => segment_paths = <<>>

\* C12 witness: a source of 1 ms, shorter than the step, with an overlap.
C12_Witness ==
  /\ Segmented
  /\ total_length = 1
  /\ overlap_s > 0
  /\ segment_paths = <<[start |-> 0, end |-> 1]>>

\* C13: a segment whose first one or two attempts failed transiently is
\* attempted again, so that a match on the third attempt becomes its outcome
\* as if it had been the first answer.
C13_RetriedAfterTransientFailures ==
  \A i \in Segs :
    (all_transient[i] /\ posts[i] \in 1..(max_retries - 1))
      => futs[i].st = "running"

\* C14: when every answer of the service is a well-formed document, no
\* segment is posted more than once (a zero-match answer is final) and the
\* run does not raise.
C14_NoMatchIsFinalAndHarmless ==
  (~CredsEmpty /\ faults = 0) =>
    /\ \A i \in Segs : posts[i] <= 1
    /\ pc # "raised"

\* C16: while the result loop or the merge runs, and after, no future is
\* pending or running.
C16_MergeAfterJoin ==
  pc \notin {"segment", "pool"} => \A i \in Segs : futs[i].st = "done"

\* C16 witness: the result loop is between two outcomes of a run of two
\* segments that completed in reverse order.
C16_Witness ==
  /\ pc = "results"
  /\ N = 2
  /\ Len(results) = 1
  /\ finish_order = <<2, 1>>

\* C15: after a completed run the table holds exactly one row keyed by the
\* request's source URL, holding the tracklist of this run, and the key used
\* for the lookup and the insert is still the request's URL.
C15_StoredUnderSourceKey ==
  pc = "done" =>
    /\ youtube_url = request_url
    /\ {row \in db : row.youtube_url = request_url}
         = {Row(request_url, final_tracklist)}

\* C17: at most 4 calls are in flight at any time, no segment completes
\* twice or is processed twice (three credential checks are one call), and
\* when the pool has been joined every segment has been processed once.
C17_BoundedPoolExactlyOnce ==
  /\ Cardinality({i \in Segs : futs[i].st = "running"}) <= 4
  /\ \A j, k \in 1..Len(finish_order) :
       j # k => finish_order[j] # finish_order[k]
  /\ \A i \in Segs : sigchecks[i] <= 3
  /\ pc \notin {"segment", "pool"} =>
       /\ {finish_order[k] : k \in 1..Len(finish_order)} = Segs
       /\ \A i \in Segs : sigchecks[i] = 3

\* C17 witness: four calls in flight, one of them in its last pass, while a
\* fifth segment waits in the queue.
C17_Witness ==
  /\ pc = "pool"
  /\ N >= 5
  /\ Cardinality({i \in Segs : futs[i].st = "running"}) = 4
  /\ \E i \in Segs : futs[i].st = "running" /\ futs[i].outer = 2
  /\ futs[N].st = "pending"

\* the entry at position p is the one a track with this title is matched to
\* or may be matched to: its key is the title or is similar to it
MatchesEntry(bt, p, title) == bt[p].key = title \/ Similar(title, bt[p].key)

\* every entry holds one of the input tracks read so far, as it was given
EntriesAreInputs ==
  \A p \in 1..Len(best_tracks) :
    \E k \in 1..(mi - 1) : best_tracks[p].track = tracklist[k]

\* every input read so far has an entry it matches whose confidence is at
\* least its own
InputsAreCovered ==
  \A k \in 1..(mi - 1) :
    \E p \in 1..Len(best_tracks) :
      /\ MatchesEntry(best_tracks, p, tracklist[k].title)
      /\ best_tracks[p].track.confidence >= tracklist[k].confidence

\* a step keeps every entry at its key and never lowers its confidence
EntriesNeverDecrease ==
  /\ Len(best_tracks') >= Len(best_tracks)
  /\ \A p \in 1..Len(best_tracks) :
       /\ best_tracks'[p].key = best_tracks[p].key
       /\ best_tracks'[p].track.confidence >= best_tracks[p].track.confidence

\* C18: while merging, no entry's confidence decreases, every entry is an
\* unmodified input, and every input read has a matching entry of at least
\* its confidence; the output is the entries, so each output entry is the
\* best of the inputs matched to it.
C18_ConfidenceMonotone ==
  /\ [](pc = "merge" => EntriesAreInputs /\ InputsAreCovered)
  /\ [](pc = "respond" =>
          /\ final_tracklist = Values(best_tracks)
          /\ EntriesAreInputs
          /\ InputsAreCovered)
  /\ [][pc = "merge" => EntriesNeverDecrease]_vars

\* C18 witness: three inputs of two titles merged into one entry, which is
\* the second input, the only one with the higher confidence.
C18_Witness ==
  /\ pc = "respond"
  /\ Len(tracklist) = 3
  /\ tracklist[1].title # tracklist[3].title
  /\ tracklist[1].confidence < tracklist[2].confidence
  /\ tracklist[3].confidence < tracklist[2].confidence
  /\ final_tracklist = <<tracklist[2]>>

\* C19: while a request still has segments to read, each of them is on disk
\* and holds audio of the request's own source: no other request has
\* deleted or replaced it, or replaced the audio it was cut from.
C19_NoInterference ==
  \A r \in Invocations :
    inv[r].pc = "recognize" =>
      \A k \in inv[r].next..Len(inv[r].segs) :
        /\ Exists(files, inv[r].segs[k])
        /\ ContentOf(files, inv[r].segs[k]) = inv[r].src

DistinctTitles(list) ==
  \A j, k \in 1..Len(list) : j # k => list[j].title # list[k].title

\* C20: no two entries hold tracks of the same title, while merging and in
\* the list merge_consecutive_tracks returns.
C20_DistinctTitles ==
  /\ DistinctTitles(Values(best_tracks))
  /\ pc = "respond" => DistinctTitles(final_tracklist)

\* C20 witness: the first entry holds a track whose title is not its key,
\* and a track of that title has come again when a second key similar to it
\* was there.
C20_Witness ==
  /\ pc = "respond"
  /\ Len(tracklist) = 4
  /\ Len(final_tracklist) = 2
  /\ best_tracks[1].key # best_tracks[1].track.title
  /\ tracklist[4].title = best_tracks[1].track.title
  /\ tracklist[3].title = best_tracks[2].key
  /\ Similar(tracklist[4].title, best_tracks[2].key)
  /\ tracklist[4].confidence > best_tracks[2].track.confidence
====
